---- MODULE Spec2Model ----
(***************************************************************************)
(* Model of the USB-C tester firmware: the bank-scanning test sequencer of *)
(* sw/src/main.rs (with the calibrated reader of sw/src/adc.rs) and the    *)
(* 40-bit millisecond timestamp arithmetic of betrusted-hal/hal_time.rs.   *)
(***************************************************************************)
EXTENDS Integers, Sequences, FiniteSets, TLC

VARIABLES
    pc,             \* "idle": main loop outside a run; "run": inside the test loop
    test_state,     \* TestState of the run
    stabilize,      \* consecutive equal settlement snapshots
    last_result,    \* previous settlement snapshot, [bool; 12]
    lower_result,   \* stored Bank Scan Result of the Lower bank
    lower_finished,
    upper_result,   \* stored Bank Scan Result of the Upper bank
    upper_finished,
    bank,           \* PinBank being measured
    counter,        \* progress glyph counter
    led,            \* state of the status LED (SbLed)
    screen,         \* last frame written to the status screen
    scan_samples,   \* history: the converter's samples of the scan behind each
                    \* stored Bank Scan Result
    run_run,        \* level of the start/stop switch (RUN_RUN, active low)
    debounce,       \* history: the delays and the wait of the last switch handling
    shown,          \* history: what check_insert gives for each bank in the
                    \* WaitInsert iteration just executed
    tm,             \* timestamp arithmetic: the operands and the result of one call
    adc,            \* one Adc::read call: its position, the multiplexer, the samples
    sc,             \* bank scanner: the arguments and the result of one call
    dl,             \* one delay_ms call: its position, the hardware counter, the
                    \* low word read by the now() in progress, the stop time,
                    \* and (history) the last two returns of now()
    pins            \* the cable under test: the samples the converter delivers
                    \* for the pins of each bank, and whether the bank has come
                    \* to rest

seqvars == <<pc, test_state, stabilize, last_result, lower_result, lower_finished,
             upper_result, upper_finished, bank, counter, led, screen,
             scan_samples, run_run, debounce, shown>>
vars == <<pc, test_state, stabilize, last_result, lower_result, lower_finished,
          upper_result, upper_finished, bank, counter, led, screen,
          scan_samples, run_run, debounce, shown, tm, adc, sc, dl, pins>>

(***************************************************************************)
(* Option<T>: None is the empty sequence, Some(v) the one-element sequence *)
(***************************************************************************)
None == <<>>
Some(v) == <<v>>

(***************************************************************************)
(* Pin descriptors and the channel map                                     *)
(***************************************************************************)
UPPER_PINS ==
    << <<"DUT_GND_EX", "DUT_GND_EX">>,
       <<"DUT_VBUS_EX", "DUT_VBUS_EX">>,
       <<"DUT_D2_P_A6", "D_P: Pin B7">>,
       <<"DUT_D2_N_A7", "D_N: Pin B6">> >>

LOWER_PINS ==
    << <<"DUT_GND_B12", "GND: Pin B12">>,
       <<"DUT_VBUS_B9", "VBUS: Pin B9">>,
       <<"DUT_CC2_B5", "CC2: Pin B5">>,
       <<"DUT_GND_B1", "GND: Pin B1">>,
       <<"DUT_GND_A1", "GND: Pin A1">>,
       <<"DUT_VBUS_A4", "VBUS: Pin A4">>,
       <<"DUT_CC1_A5", "CC1: Pin A5">>,
       <<"DUT_VBUS_A9", "VBUS: Pin A9">>,
       <<"DUT_D1_P_A6", "D_P: Pin A6">>,
       <<"DUT_D1_N_A7", "D_N: Pin A7">>,
       <<"DUT_GND_A12", "GND: Pin A12">>,
       <<"DUT_VBUS_B4", "VBUS: Pin B4">> >>

CHANNEL_MAP ==
    << "DUT_D1_P_A6", "DUT_D1_N_A7", "DUT_GND_A12", "DUT_VBUS_B4",
       "DUT_GND_B12", "DUT_CC2_B5", "DUT_VBUS_B9", "DUT_GND_B1",
       "DUT_D2_N_A7", "DUT_D2_P_A6", "DUT_VBUS_EX", "DUT_IBUS",
       "DUT_GND_A1", "DUT_VBUS_A9", "DUT_VBUS_A4", "DUT_CC1_A5" >>

PinBank == {"Upper", "Lower"}
TestState == {"WaitInsert", "Measure", "ReportResult"}

\* anything above this number is considered to be an "open" pin
MIN_NC_THRESH == 1000
U16_MAX == 65535
\* number of slots of a result array, [_; 12]
RESULT_SLOTS == 12
\* the arm of the settlement test, `stabilize == 4`
STABLE_COUNT == 4
\* the cap of the failing-pin list, `lines < 5`
MAX_LINES == 5

\* the descriptor array `match bank` picks in check_pins
BankPins(b) == IF b = "Lower" THEN LOWER_PINS ELSE UPPER_PINS

(***************************************************************************)
(* Adc::read, given the two averaged samples the converter delivers: the   *)
(* calibration sample cal and the measurement sample meas                  *)
(***************************************************************************)
\* mutant: the search starts from channel 0 instead of the out-of-range 16
ChannelOf_from_zero(channel) ==
    IF \E i \in 1..Len(CHANNEL_MAP) : CHANNEL_MAP[i] = channel
    THEN (CHOOSE i \in 1..Len(CHANNEL_MAP) :
             /\ CHANNEL_MAP[i] = channel
             /\ \A j \in 1..(i - 1) : CHANNEL_MAP[j] # channel) - 1
    ELSE 0

ChannelOf(channel) ==
    IF \E i \in 1..Len(CHANNEL_MAP) : CHANNEL_MAP[i] = channel
    THEN (CHOOSE i \in 1..Len(CHANNEL_MAP) :
             /\ CHANNEL_MAP[i] = channel
             /\ \A j \in 1..(i - 1) : CHANNEL_MAP[j] # channel) - 1
    ELSE 16

\* mutant: the subtraction is not guarded, it wraps in 16 bits
read_wrapping(channel, cal, meas) ==
    IF ChannelOf(channel) = 16 THEN None
    ELSE Some((cal - meas) % 65536)

read(channel, cal, meas) ==
    IF ChannelOf(channel) = 16 THEN None
    ELSE IF meas >= cal THEN Some(0)
    ELSE Some(cal - meas)

(***************************************************************************)
(* Bank scanner.  samples[i] = <<cal, meas>> are the averaged samples the  *)
(* converter delivers while pin i of the bank is read.                     *)
(***************************************************************************)
\* the `results` array of check_pins, given what adc.read returned for each
\* pin of the bank
\* mutant: the scan gives up at the first pin the reader rejects
scan_results_stop_at_none(b, readings) ==
    [index \in 1..RESULT_SLOTS |->
        IF /\ index <= Len(BankPins(b))
           /\ \A j \in 1..index : readings[j] # None
        THEN <<Some(BankPins(b)[index][2]), readings[index][1]>>
        ELSE <<None, U16_MAX>>]

scan_results(b, readings) ==
    [index \in 1..RESULT_SLOTS |->
        IF index <= Len(BankPins(b))
        THEN <<Some(BankPins(b)[index][2]),
               IF readings[index] = None THEN U16_MAX ELSE readings[index][1]>>
        ELSE <<None, U16_MAX>>]

check_pins(b, samples) ==
    scan_results(b, [index \in 1..Len(BankPins(b)) |->
                        read(BankPins(b)[index][1], samples[index][1], samples[index][2])])

\* mutant: a Reading at the threshold counts as a connection
check_insert_at_threshold(b, samples) ==
    \E i \in 1..RESULT_SLOTS : check_pins(b, samples)[i][2] <= MIN_NC_THRESH

check_insert(b, samples) ==
    \E i \in 1..RESULT_SLOTS : check_pins(b, samples)[i][2] < MIN_NC_THRESH

settling_check(b, samples) ==
    [index \in 1..RESULT_SLOTS |-> check_pins(b, samples)[index][2] < MIN_NC_THRESH]

\* mutant: only the slots of the shorter bank are compared
results_equal_upper_slots(a, b) == \A i \in 1..Len(UPPER_PINS) : a[i] = b[i]

results_equal(a, b) == \A i \in 1..RESULT_SLOTS : a[i] = b[i]

(***************************************************************************)
(* The converter's averaged samples during one scan of a bank.  A scan     *)
(* draws, for a set B of the bank's pins (a leading run of pins, or the    *)
(* last pin alone), one sample pair for the pins of B and the connected    *)
(* pair for the others.  The pairs <<cal, meas>> give the Readings 999     *)
(* (connected), 1000 (the threshold) and 1001 (open).                      *)
(***************************************************************************)
ConnectedSample == <<2000, 1001>>
AdcSamples == { ConnectedSample, <<2000, 1000>>, <<2000, 999>> }

PinSets(n) == {1..j : j \in 0..n} \cup {{n}}

ScanInputs(b) ==
    LET n == Len(BankPins(b))
    IN { [i \in 1..n |-> IF i \in B THEN x ELSE ConnectedSample] :
            B \in PinSets(n), x \in AdcSamples }

\* what the three scanner functions can give for each bank, over the scans
\* of ScanInputs
Inserts == [b \in PinBank |-> {check_insert(b, s) : s \in ScanInputs(b)}]
Snapshots == [b \in PinBank |-> {settling_check(b, s) : s \in ScanInputs(b)}]
Scans == [b \in PinBank |->
            {[samples |-> s, results |-> check_pins(b, s)] : s \in ScanInputs(b)}]

\* the progress counter is an unbounded integer in the code; the model stops
\* scanning in Measure once it reaches this bound
MaxCounter == 5

(***************************************************************************)
(* ReportResult: verdict, headline count and failing-pin list              *)
(***************************************************************************)
CountAbove(result) ==
    Cardinality({i \in 1..RESULT_SLOTS : result[i][2] > MIN_NC_THRESH})

passing(lower, upper) ==
    /\ \A i \in 1..RESULT_SLOTS : ~(lower[i][2] > MIN_NC_THRESH)
    /\ \A i \in 1..RESULT_SLOTS : ~(upper[i][2] > MIN_NC_THRESH)

total_fail(lower, upper) == CountAbove(lower) + CountAbove(upper)

\* one `for (maybe_name, val) in result` loop of the FAIL branch, from slot
\* index on, entered with the running `lines` counter: the names it writes
RECURSIVE fail_lines(_, _, _)
fail_lines(result, index, lines) ==
    IF index > RESULT_SLOTS THEN <<>>
    ELSE IF /\ result[index][1] # None
            /\ result[index][2] >= MIN_NC_THRESH
            /\ lines < MAX_LINES
         THEN <<result[index][1][1]>> \o fail_lines(result, index + 1, lines + 1)
         ELSE fail_lines(result, index + 1, lines)

\* mutant: the loop over upper_result is missing
fail_names_lower_only(lower, upper) == fail_lines(lower, 1, 0)

\* mutant: the `lines` counter is restarted for the Upper bank
fail_names_per_bank(lower, upper) ==
    fail_lines(lower, 1, 0) \o fail_lines(upper, 1, 0)

fail_names(lower, upper) ==
    LET l == fail_lines(lower, 1, 0)
    IN l \o fail_lines(upper, 1, Len(l))

(***************************************************************************)
(* The run: lines 258-411 of main()                                        *)
(***************************************************************************)
\* the debounce period of the switch, `delay_ms(10)`
DEBOUNCE_MS == 10
\* the handling of a pressed switch: a debounce delay, the wait for the switch
\* to rise (a delay per sample that still reads 0), another debounce delay
DebounceOps == << <<"delay_ms", DEBOUNCE_MS>>, <<"wait_for", "RUN_RUN", 1>>,
                  <<"delay_ms", DEBOUNCE_MS>> >>

\* the two tests of WaitInsert that pick the bank to measure, given the finished
\* flags and what check_insert gives for each bank
select_bank_upper_first(lower_fin, upper_fin, lower_ins, upper_ins) ==
    IF ~upper_fin /\ upper_ins THEN Some("Upper")
    ELSE IF ~lower_fin /\ lower_ins THEN Some("Lower")
    ELSE None

\* mutant: the finished flags are not consulted
select_bank_ignores_finished(lower_fin, upper_fin, lower_ins, upper_ins) ==
    IF lower_ins THEN Some("Lower")
    ELSE IF upper_ins THEN Some("Upper")
    ELSE None

select_bank(lower_fin, upper_fin, lower_ins, upper_ins) ==
    IF ~lower_fin /\ lower_ins THEN Some("Lower")
    ELSE IF ~upper_fin /\ upper_ins THEN Some("Upper")
    ELSE None

\* the banks check_insert is called on by those two tests, in order: `&&`
\* skips the call for a finished bank, `continue` skips the Upper test
insert_checks(lower_fin, upper_fin, lower_ins) ==
    (IF ~lower_fin THEN <<"Lower">> ELSE <<>>)
       \o (IF (lower_fin \/ ~lower_ins) /\ ~upper_fin THEN <<"Upper">> ELSE <<>>)

NoScans == [b \in PinBank |-> <<>>]
EmptyResult == [i \in 1..RESULT_SLOTS |-> <<None, U16_MAX>>]
AllFalse == [i \in 1..RESULT_SLOTS |-> FALSE]

\* no Adc::read call and no scanner call in progress
AdcIdle == [pc |-> "idle", channel |-> "", ch |-> 16, mux |-> None, cal |-> 0,
            meas |-> 0, ret |-> None, ops |-> <<>>]
ScIdle == [op |-> "none", bank |-> "Lower", samples |-> <<>>, res |-> None]
\* no delay_ms call in progress
DlIdle == [pc |-> "idle", ms |-> 0, hw |-> <<>>, ticks |-> 0, start |-> <<>>,
           t0 |-> <<>>, stop_time |-> <<>>, called |-> <<>>, ret |-> None,
           prev |-> None]

\* no cable is followed: outside the liveness specification the scans draw
\* their samples afresh at every step
NoPins == [samples |-> NoScans, steady |-> [b \in PinBank |-> FALSE]]

SeqInit ==
    /\ pc = "idle"
    /\ test_state = "WaitInsert"
    /\ stabilize = 0
    /\ last_result = AllFalse
    /\ lower_result = EmptyResult
    /\ lower_finished = FALSE
    /\ upper_result = EmptyResult
    /\ upper_finished = FALSE
    /\ bank = "Lower"
    /\ counter = 0
    /\ led = "idle"
    /\ screen = [kind |-> "poweron"]
    /\ scan_samples = NoScans
    /\ run_run = 1
    /\ debounce = <<>>
    /\ shown = None

\* the operator presses the start/stop switch
Press ==
    /\ run_run = 1
    /\ run_run' = 0
    /\ UNCHANGED <<pc, test_state, stabilize, last_result, lower_result, lower_finished,
                   upper_result, upper_finished, bank, counter, led, screen,
                   scan_samples, debounce, shown, tm, adc, sc, dl, pins>>

\* mutant: the previous snapshot is not re-initialised
StartRun_stale_snapshot ==
    /\ pc = "idle"
    /\ run_run = 0
    /\ run_run' = 1
    /\ debounce' = DebounceOps
    /\ shown' = None
    /\ pc' = "run"
    /\ led' = "run"
    /\ test_state' = "WaitInsert"
    /\ stabilize' = 0
    /\ lower_result' = EmptyResult
    /\ lower_finished' = FALSE
    /\ upper_result' = EmptyResult
    /\ upper_finished' = FALSE
    /\ bank' = "Lower"
    /\ counter' = 0
    /\ scan_samples' = NoScans
    /\ UNCHANGED <<last_result, screen, tm, adc, sc, dl, pins>>

\* mutant: the Lower bank's stored result and flag are not re-initialised
StartRun_keeps_lower ==
    /\ pc = "idle"
    /\ run_run = 0
    /\ run_run' = 1
    /\ debounce' = DebounceOps
    /\ shown' = None
    /\ pc' = "run"
    /\ led' = "run"
    /\ test_state' = "WaitInsert"
    /\ stabilize' = 0
    /\ last_result' = AllFalse
    /\ upper_result' = EmptyResult
    /\ upper_finished' = FALSE
    /\ bank' = "Lower"
    /\ counter' = 0
    /\ UNCHANGED <<lower_result, lower_finished, scan_samples, screen, tm, adc, sc, dl, pins>>

\* RUN_RUN reads 0 in the main loop: debounce, wait for the release, start a run
StartRun ==
    /\ pc = "idle"
    /\ run_run = 0
    /\ run_run' = 1
    /\ debounce' = DebounceOps
    /\ shown' = None
    /\ pc' = "run"
    /\ led' = "run"
    /\ test_state' = "WaitInsert"
    /\ stabilize' = 0
    /\ last_result' = AllFalse
    /\ lower_result' = EmptyResult
    /\ lower_finished' = FALSE
    /\ upper_result' = EmptyResult
    /\ upper_finished' = FALSE
    /\ bank' = "Lower"
    /\ counter' = 0
    /\ scan_samples' = NoScans
    /\ UNCHANGED <<screen, tm, adc, sc, dl, pins>>

\* mutant: the loop is left after the first debounce delay, without the wait
\* for the switch to rise
Abort_no_release_wait ==
    /\ pc = "run"
    /\ run_run = 0
    /\ debounce' = << <<"delay_ms", DEBOUNCE_MS>> >>
    /\ shown' = None
    /\ pc' = "idle"
    /\ led' = "idle"
    /\ UNCHANGED <<test_state, stabilize, last_result, lower_result, lower_finished,
                   upper_result, upper_finished, bank, counter, screen,
                   scan_samples, run_run, tm, adc, sc, dl, pins>>

\* RUN_RUN reads 0 at the top of the test loop: debounce, wait for the
\* release, leave the loop (the run's locals go out of scope)
Abort ==
    /\ pc = "run"
    /\ run_run = 0
    /\ run_run' = 1
    /\ debounce' = DebounceOps
    /\ shown' = None
    /\ pc' = "idle"
    /\ led' = "idle"
    /\ UNCHANGED <<test_state, stabilize, last_result, lower_result, lower_finished,
                   upper_result, upper_finished, bank, counter, screen,
                   scan_samples, tm, adc, sc, dl, pins>>

\* mutant: one finished bank is enough to report
WaitInsert_either_finished ==
    /\ pc = "run"
    /\ run_run = 1
    /\ test_state = "WaitInsert"
    /\ counter' = 0
    /\ stabilize' = 0
    /\ IF upper_finished \/ lower_finished
       THEN /\ test_state' = "ReportResult"
            /\ shown' = None
            /\ UNCHANGED <<bank, screen>>
       ELSE /\ screen' = [kind |-> "insert", upper |-> upper_finished,
                          lower |-> lower_finished]
            /\ \E lower_ins \in Inserts["Lower"], upper_ins \in Inserts["Upper"] :
                  LET pick == select_bank(lower_finished, upper_finished,
                                          lower_ins, upper_ins)
                  IN /\ shown' = Some([Lower |-> lower_ins, Upper |-> upper_ins,
                                       checked |-> insert_checks(lower_finished,
                                                      upper_finished, lower_ins)])
                     /\ IF pick # None
                        THEN test_state' = "Measure" /\ bank' = pick[1]
                        ELSE UNCHANGED <<test_state, bank>>
    /\ UNCHANGED <<pc, led, last_result, lower_result, lower_finished,
                   upper_result, upper_finished, scan_samples, run_run, debounce,
                   tm, adc, sc, dl, pins>>

\* RUN_RUN reads 1 and test_state is WaitInsert
WaitInsert ==
    /\ pc = "run"
    /\ run_run = 1
    /\ test_state = "WaitInsert"
    /\ counter' = 0
    /\ stabilize' = 0
    /\ IF upper_finished /\ lower_finished
       THEN /\ test_state' = "ReportResult"
            /\ shown' = None
            /\ UNCHANGED <<bank, screen>>
       ELSE /\ screen' = [kind |-> "insert", upper |-> upper_finished,
                          lower |-> lower_finished]
            /\ \E lower_ins \in Inserts["Lower"], upper_ins \in Inserts["Upper"] :
                  LET pick == select_bank(lower_finished, upper_finished,
                                          lower_ins, upper_ins)
                  IN /\ shown' = Some([Lower |-> lower_ins, Upper |-> upper_ins,
                                       checked |-> insert_checks(lower_finished,
                                                      upper_finished, lower_ins)])
                     /\ IF pick # None
                        THEN test_state' = "Measure" /\ bank' = pick[1]
                        ELSE UNCHANGED <<test_state, bank>>
    /\ UNCHANGED <<pc, led, last_result, lower_result, lower_finished,
                   upper_result, upper_finished, scan_samples, run_run, debounce,
                   tm, adc, sc, dl, pins>>

\* mutant: the settlement of the Lower bank marks the Upper bank finished too
Measure_settles_both ==
    /\ pc = "run"
    /\ run_run = 1
    /\ shown' = None
    /\ test_state = "Measure"
    /\ counter < MaxCounter
    /\ screen' = [kind |-> "measuring", bank |-> bank, glyph |-> counter % 4]
    /\ counter' = counter + 1
    /\ \E new_result \in Snapshots["Lower"] :
          LET stab == IF results_equal(new_result, last_result)
                      THEN stabilize + 1 ELSE 0
          IN /\ stabilize' = stab
             /\ last_result' = new_result
             /\ IF stab = STABLE_COUNT
                THEN IF bank = "Lower"
                     THEN /\ \E scan \in Scans["Lower"] :
                                /\ lower_result' = scan.results
                                /\ scan_samples' =
                                       [scan_samples EXCEPT !["Lower"] = scan.samples]
                          /\ lower_finished' = TRUE
                          /\ test_state' = "WaitInsert"
                          /\ upper_finished' = TRUE
                          /\ UNCHANGED upper_result
                     ELSE /\ \E scan \in Scans["Upper"] :
                                /\ upper_result' = scan.results
                                /\ scan_samples' =
                                       [scan_samples EXCEPT !["Upper"] = scan.samples]
                          /\ upper_finished' = TRUE
                          /\ test_state' = "WaitInsert"
                          /\ UNCHANGED <<lower_result, lower_finished>>
                ELSE UNCHANGED <<lower_result, lower_finished, upper_result,
                                 upper_finished, test_state, scan_samples>>
    /\ UNCHANGED <<pc, led, bank, run_run, debounce, tm, adc, sc, dl, pins>>

\* RUN_RUN reads 1 and test_state is Measure
Measure ==
    /\ pc = "run"
    /\ run_run = 1
    /\ shown' = None
    /\ test_state = "Measure"
    /\ counter < MaxCounter
    /\ screen' = [kind |-> "measuring", bank |-> bank, glyph |-> counter % 4]
    /\ counter' = counter + 1
    /\ \E new_result \in Snapshots["Lower"] :
          LET stab == IF results_equal(new_result, last_result)
                      THEN stabilize + 1 ELSE 0
          IN /\ stabilize' = stab
             /\ last_result' = new_result
             /\ IF stab = STABLE_COUNT
                THEN IF bank = "Lower"
                     THEN /\ \E scan \in Scans["Lower"] :
                                /\ lower_result' = scan.results
                                /\ scan_samples' =
                                       [scan_samples EXCEPT !["Lower"] = scan.samples]
                          /\ lower_finished' = TRUE
                          /\ test_state' = "WaitInsert"
                          /\ UNCHANGED <<upper_result, upper_finished>>
                     ELSE /\ \E scan \in Scans["Upper"] :
                                /\ upper_result' = scan.results
                                /\ scan_samples' =
                                       [scan_samples EXCEPT !["Upper"] = scan.samples]
                          /\ upper_finished' = TRUE
                          /\ test_state' = "WaitInsert"
                          /\ UNCHANGED <<lower_result, lower_finished>>
                ELSE UNCHANGED <<lower_result, lower_finished, upper_result,
                                 upper_finished, test_state, scan_samples>>
    /\ UNCHANGED <<pc, led, bank, run_run, debounce, tm, adc, sc, dl, pins>>

\* mutant: after showing the verdict the sequencer waits for a cable again
ReportResult_once ==
    /\ pc = "run"
    /\ run_run = 1
    /\ shown' = None
    /\ test_state = "ReportResult"
    /\ test_state' = "WaitInsert"
    /\ IF passing(lower_result, upper_result)
       THEN /\ led' = "pass"
            /\ screen' = [kind |-> "pass"]
       ELSE /\ led' = "fail"
            /\ screen' = [kind |-> "fail",
                          total_fail |-> total_fail(lower_result, upper_result),
                          names |-> fail_names(lower_result, upper_result)]
    /\ UNCHANGED <<pc, stabilize, last_result, lower_result,
                   lower_finished, upper_result, upper_finished, bank, counter,
                   scan_samples, run_run, debounce, tm, adc, sc, dl, pins>>

\* RUN_RUN reads 1 and test_state is ReportResult
ReportResult ==
    /\ pc = "run"
    /\ run_run = 1
    /\ shown' = None
    /\ test_state = "ReportResult"
    /\ IF passing(lower_result, upper_result)
       THEN /\ led' = "pass"
            /\ screen' = [kind |-> "pass"]
       ELSE /\ led' = "fail"
            /\ screen' = [kind |-> "fail",
                          total_fail |-> total_fail(lower_result, upper_result),
                          names |-> fail_names(lower_result, upper_result)]
    /\ UNCHANGED <<pc, test_state, stabilize, last_result, lower_result,
                   lower_finished, upper_result, upper_finished, bank, counter,
                   scan_samples, run_run, debounce, tm, adc, sc, dl, pins>>

(***************************************************************************)
(* Unsigned machine integers.  A value of n bytes is a little-endian       *)
(* sequence of n bytes (u32: 4 bytes, u64: 8 bytes), so that the words     *)
(* keep their width: 32-bit and 64-bit arithmetic is carried out byte by   *)
(* byte with carries and borrows.                                          *)
(***************************************************************************)
Byte == 0..255

\* the n-byte value of a small number v
RECURSIVE Bytes(_, _)
Bytes(v, n) == IF n = 0 THEN <<>> ELSE <<v % 256>> \o Bytes(v \div 256, n - 1)

\* a + b + c of two n-byte values: n bytes of sum, then the carry out
RECURSIVE AddBytes(_, _, _)
AddBytes(a, b, c) ==
    IF a = <<>> THEN <<c>>
    ELSE LET s == Head(a) + Head(b) + c
         IN <<s % 256>> \o AddBytes(Tail(a), Tail(b), s \div 256)

\* a - b - c of two n-byte values: n bytes of difference, then the borrow out
RECURSIVE SubBytes(_, _, _)
SubBytes(a, b, c) ==
    IF a = <<>> THEN <<c>>
    ELSE LET s == Head(a) - Head(b) - c
         IN IF s < 0 THEN <<s + 256>> \o SubBytes(Tail(a), Tail(b), 1)
            ELSE <<s>> \o SubBytes(Tail(a), Tail(b), 0)

\* a * m + c of an n-byte value and a small factor: n bytes, then 2 bytes of carry
RECURSIVE MulBytes(_, _, _)
MulBytes(a, m, c) ==
    IF a = <<>> THEN Bytes(c, 2)
    ELSE LET s == Head(a) * m + c
         IN <<s % 256>> \o MulBytes(Tail(a), m, s \div 256)

LtBytes(a, b) == SubBytes(a, b, 0)[Len(a) + 1] = 1

RECURSIVE BitAnd(_, _, _)
BitAnd(x, y, bits) ==
    IF bits = 0 THEN 0
    ELSE (x % 2) * (y % 2) + 2 * BitAnd(x \div 2, y \div 2, bits - 1)

RECURSIVE BitOr(_, _, _)
BitOr(x, y, bits) ==
    IF bits = 0 THEN 0
    ELSE (IF x % 2 = 1 \/ y % 2 = 1 THEN 1 ELSE 0)
         + 2 * BitOr(x \div 2, y \div 2, bits - 1)

AndBytes(a, b) == [i \in 1..Len(a) |-> BitAnd(a[i], b[i], 8)]
OrBytes(a, b) == [i \in 1..Len(a) |-> BitOr(a[i], b[i], 8)]

U32_MAX == <<255, 255, 255, 255>>
U64_MAX == <<255, 255, 255, 255, 255, 255, 255, 255>>

\* u32::overflowing_add: <<sum, overflow>>
overflowing_add(x, y) ==
    LET s == AddBytes(x, y, 0) IN <<SubSeq(s, 1, 4), s[5] = 1>>
wrapping_add(x, y) == SubSeq(AddBytes(x, y, 0), 1, 4)
wrapping_sub(x, y) == SubSeq(SubBytes(x, y, 0), 1, 4)
\* u32::partial_cmp
cmp_u32(x, y) ==
    IF LtBytes(x, y) THEN Some("Less")
    ELSE IF LtBytes(y, x) THEN Some("Greater")
    ELSE Some("Equal")
\* `x as u64`
as_u64(x) == x \o <<0, 0, 0, 0>>
\* u64::overflowing_mul by a small factor: <<product, overflow>>
overflowing_mul(x, m) ==
    LET p == MulBytes(x, m, 0)
    IN <<SubSeq(p, 1, 8), SubSeq(p, 9, 10) # <<0, 0>> >>
\* u64::saturating_add
saturating_add(x, y) ==
    LET s == AddBytes(x, y, 0)
    IN IF s[9] = 1 THEN U64_MAX ELSE SubSeq(s, 1, 8)
\* `x << 32` on u64
shl32(x) == <<0, 0, 0, 0>> \o SubSeq(x, 1, 4)
\* `x >> 32` on u64
shr32(x) == SubSeq(x, 5, 8) \o <<0, 0, 0, 0>>
\* `x as u32` on u64
as_u32(x) == SubSeq(x, 1, 4)

(***************************************************************************)
(* TimeMs: [time0 |-> u32, time1 |-> u32]                                  *)
(***************************************************************************)
MS_TIMER_BITS == 40
MS_PER_SECOND == 1000

\* 2u64.pow(bits)
RECURSIVE Pow2(_)
Pow2(bits) ==
    IF bits = 0 THEN Bytes(1, 8)
    ELSE LET h == Pow2(bits - 1) IN SubSeq(AddBytes(h, h, 0), 1, 8)

END_OF_TIME_MS == SubSeq(SubBytes(Pow2(MS_TIMER_BITS), Bytes(1, 8), 0), 1, 8)

\* mutant: the high word is incremented without the 8-bit mask
add_ms_no_mask(self, interval_ms) ==
    LET r == overflowing_add(self.time0, interval_ms)
    IN IF ~r[2]
       THEN [time0 |-> r[1], time1 |-> self.time1]
       ELSE [time0 |-> r[1], time1 |-> wrapping_add(self.time1, Bytes(1, 4))]

add_ms(self, interval_ms) ==
    LET r == overflowing_add(self.time0, interval_ms)
    IN IF ~r[2]
       THEN [time0 |-> r[1], time1 |-> self.time1]
       ELSE [time0 |-> r[1],
             time1 |-> AndBytes(<<255, 0, 0, 0>>, wrapping_add(self.time1, Bytes(1, 4)))]

\* mutant: the sum is not clipped to END_OF_TIME_MS
add_s_no_clip(self, interval_s) ==
    LET m == overflowing_mul(as_u64(interval_s), MS_PER_SECOND)
        time == IF (m[2] = FALSE) /\ LtBytes(m[1], END_OF_TIME_MS)
                THEN m[1] ELSE END_OF_TIME_MS
        start_time == OrBytes(shl32(as_u64(self.time1)), as_u64(self.time0))
        target == saturating_add(start_time, time)
    IN [time0 |-> as_u32(AndBytes(target, as_u64(U32_MAX))),
        time1 |-> as_u32(shr32(target))]

add_s(self, interval_s) ==
    LET m == overflowing_mul(as_u64(interval_s), MS_PER_SECOND)
        time == IF (m[2] = FALSE) /\ LtBytes(m[1], END_OF_TIME_MS)
                THEN m[1] ELSE END_OF_TIME_MS
        start_time == OrBytes(shl32(as_u64(self.time1)), as_u64(self.time0))
        sum == saturating_add(start_time, time)
        target == IF LtBytes(END_OF_TIME_MS, sum) THEN END_OF_TIME_MS ELSE sum
        high_bits == as_u32(shr32(target))
        low_bits == as_u32(AndBytes(target, as_u64(U32_MAX)))
    IN [time0 |-> low_bits, time1 |-> high_bits]

\* mutant: the low word is compared first
partial_cmp_low_first(self, other) ==
    LET x == cmp_u32(self.time0, other.time0)
    IN IF x = Some("Equal") THEN cmp_u32(self.time1, other.time1) ELSE x

partial_cmp(self, other) ==
    LET x == cmp_u32(self.time1, other.time1)
    IN IF x = Some("Equal") THEN cmp_u32(self.time0, other.time0) ELSE x

\* mutant: only the high words are compared
lt_high_only(self, other) == cmp_u32(self.time1, other.time1) = Some("Less")

\* `self < other`, PartialOrd::lt
lt(self, other) == partial_cmp(self, other) = Some("Less")

\* Result<u32, TimeMsErr>
Ok(v) == [ok |-> TRUE, val |-> v]
Err(e) == [ok |-> FALSE, val |-> e]

\* mutant: only equal high words are accepted
sub_u32_same_high(self, earlier) ==
    IF lt(self, earlier) THEN Err("Underflow")
    ELSE IF wrapping_sub(self.time1, earlier.time1) = Bytes(0, 4)
         THEN Ok(wrapping_sub(self.time0, earlier.time0))
         ELSE Err("Overflow")

sub_u32(self, earlier) ==
    IF lt(self, earlier) THEN Err("Underflow")
    ELSE LET d == wrapping_sub(self.time1, earlier.time1)
         IN IF d = Bytes(0, 4) \/ d = Bytes(1, 4)
            THEN Ok(wrapping_sub(self.time0, earlier.time0))
            ELSE Err("Overflow")

(***************************************************************************)
(* One call of a timestamp operation on operands drawn from the edges of   *)
(* the words' ranges                                                       *)
(***************************************************************************)
\* operands lie within Edge of the ends of their range
Edge == 1

U32Samples ==
    {Bytes(k, 4) : k \in 0..Edge} \cup {wrapping_sub(U32_MAX, Bytes(k, 4)) : k \in 0..Edge}

\* seconds: the edges of u32 and the values around (2^40 - 1) / 1000, where
\* the product with MS_PER_SECOND crosses END_OF_TIME_MS
SecondSamples ==
    U32Samples \cup {Bytes(1099511627 + k, 4) : k \in (0 - Edge)..(Edge + 1)}

\* the hardware counter has 8 bits of high word
HighSamples == {Bytes(k, 4) : k \in (0..Edge) \cup ((255 - Edge)..255)}

TimeSamples == {[time0 |-> lo, time1 |-> hi] : lo \in U32Samples, hi \in HighSamples}

TmIdle == [op |-> "none", a |-> [time0 |-> Bytes(0, 4), time1 |-> Bytes(0, 4)],
           b |-> [time0 |-> Bytes(0, 4), time1 |-> Bytes(0, 4)],
           x |-> Bytes(0, 4), res |-> None]

TimeInit ==
    /\ SeqInit
    /\ adc = AdcIdle
    /\ sc = ScIdle
    /\ dl = DlIdle
    /\ pins = NoPins
    /\ tm \in {[TmIdle EXCEPT !.a = a, !.b = b] : a \in TimeSamples, b \in TimeSamples}

\* tm.b.sub_u32(&tm.a)
CallSubU32 ==
    /\ tm.op = "none"
    /\ tm' = [tm EXCEPT !.op = "sub_u32", !.res = sub_u32(tm.b, tm.a)]
    /\ UNCHANGED <<seqvars, adc, sc, dl, pins>>

\* tm.a.partial_cmp(&tm.b)
CallPartialCmp ==
    /\ tm.op = "none"
    /\ tm' = [tm EXCEPT !.op = "partial_cmp", !.res = partial_cmp(tm.a, tm.b)]
    /\ UNCHANGED <<seqvars, adc, sc, dl, pins>>

\* tm.a.add_ms(x)
CallAddMs ==
    /\ tm.op = "none"
    /\ \E x \in U32Samples :
          tm' = [tm EXCEPT !.op = "add_ms", !.x = x, !.res = add_ms(tm.a, x)]
    /\ UNCHANGED <<seqvars, adc, sc, dl, pins>>

\* tm.a.add_s(x)
CallAddS ==
    /\ tm.op = "none"
    /\ \E x \in SecondSamples :
          tm' = [tm EXCEPT !.op = "add_s", !.x = x, !.res = add_s(tm.a, x)]
    /\ UNCHANGED <<seqvars, adc, sc, dl, pins>>

TimeNext == CallSubU32 \/ CallPartialCmp \/ CallAddMs \/ CallAddS

SpecTime == TimeInit /\ [][TimeNext]_vars

Init ==
    /\ SeqInit
    /\ tm = TmIdle
    /\ adc = AdcIdle
    /\ sc = ScIdle
    /\ dl = DlIdle
    /\ pins = NoPins

Next == Press \/ StartRun \/ Abort \/ WaitInsert \/ Measure \/ ReportResult

Spec == Init /\ [][Next]_vars

(***************************************************************************)
(* ReportResult as a function of the stored results: it is entered with    *)
(* two results as check_pins builds them, each pin's Reading being one of  *)
(* 999, 1000 and 1001                                                      *)
(***************************************************************************)
StoredResults(b) ==
    LET n == Len(BankPins(b))
    IN { scan_results(b, [i \in 1..n |-> IF i \in B THEN Some(x) ELSE Some(y)]) :
            B \in PinSets(n),
            x \in {MIN_NC_THRESH, MIN_NC_THRESH + 1},
            y \in {MIN_NC_THRESH - 1, MIN_NC_THRESH} }

ReportInit ==
    /\ pc = "run"
    /\ test_state = "ReportResult"
    /\ stabilize = 0
    /\ last_result = AllFalse
    /\ lower_result \in StoredResults("Lower")
    /\ lower_finished = TRUE
    /\ upper_result \in StoredResults("Upper")
    /\ upper_finished = TRUE
    /\ bank = "Upper"
    /\ counter = 0
    /\ led = "run"
    /\ screen = [kind |-> "insert", upper |-> FALSE, lower |-> TRUE]
    /\ scan_samples = NoScans
    /\ run_run = 1
    /\ debounce = DebounceOps
    /\ shown = None
    /\ tm = TmIdle
    /\ adc = AdcIdle
    /\ sc = ScIdle
    /\ dl = DlIdle
    /\ pins = NoPins

ReportNext == ReportResult

SpecReport == ReportInit /\ [][ReportNext]_vars

(***************************************************************************)
(* Adc::read step by step: the channel lookup, then the calibration sample *)
(* with the multiplexer neutral, the measurement sample with the           *)
(* multiplexer on the requested pin, and the multiplexer back to neutral.  *)
(* adc.mux is the DUT register (None: 0, no pin selected; Some(f): only    *)
(* field f set), adc.ops the hardware operations of the call so far.       *)
(***************************************************************************)
\* the converter channel of the calibration sample, `3 + 8`
CAL_CHANNEL == 11
\* the settling delay after a multiplexer write, `delay_ms(2)`
MUX_SETTLE_MS == 2

\* the pins a caller can name: the channel map's and the one descriptor of
\* main.rs that is not in it
AdcFields == {CHANNEL_MAP[i] : i \in 1..Len(CHANNEL_MAP)} \cup {"DUT_GND_EX"}

\* what read_inner returns: the average of 16 conversions, a u16
AvgSamples == {0, 1, 999, 1000, 2000, 65535}

AdcRest == UNCHANGED <<seqvars, tm, sc, dl, pins>>

\* Adc::new()
AdcNew ==
    /\ adc.pc = "idle"
    /\ adc' = [adc EXCEPT !.pc = "ready", !.mux = None]
    /\ AdcRest

\* a caller enters adc.read(channel)
ReadCall ==
    /\ adc.pc \in {"ready", "done"}
    /\ \E channel \in AdcFields :
          adc' = [adc EXCEPT !.pc = "lookup", !.channel = channel, !.ch = 16,
                             !.cal = 0, !.meas = 0, !.ret = None, !.ops = <<>>]
    /\ AdcRest

\* the search of CHANNEL_MAP and the early return
ReadLookup ==
    /\ adc.pc = "lookup"
    /\ LET ch == ChannelOf(adc.channel)
       IN adc' = [adc EXCEPT !.ch = ch,
                             !.pc = IF ch = 16 THEN "done" ELSE "cal_mux",
                             !.ret = None]
    /\ AdcRest

\* self.dut.wo(utra::dut::DUT, 0)
ReadCalMux ==
    /\ adc.pc = "cal_mux"
    /\ adc' = [adc EXCEPT !.pc = "cal_delay", !.mux = None,
                          !.ops = Append(@, <<"mux", None>>)]
    /\ AdcRest

\* delay_ms(2)
ReadCalDelay ==
    /\ adc.pc = "cal_delay"
    /\ adc' = [adc EXCEPT !.pc = "cal_sample",
                          !.ops = Append(@, <<"delay_ms", MUX_SETTLE_MS>>)]
    /\ AdcRest

\* let cal = self.read_inner(3 + 8)
ReadCalSample ==
    /\ adc.pc = "cal_sample"
    /\ \E v \in AvgSamples :
          adc' = [adc EXCEPT !.pc = "meas_mux", !.cal = v,
                             !.ops = Append(@, <<"read_inner", CAL_CHANNEL>>)]
    /\ AdcRest

\* self.dut.wfo(channel, 1)
ReadMeasMux ==
    /\ adc.pc = "meas_mux"
    /\ adc' = [adc EXCEPT !.pc = "meas_delay", !.mux = Some(adc.channel),
                          !.ops = Append(@, <<"mux", Some(adc.channel)>>)]
    /\ AdcRest

\* delay_ms(2)
ReadMeasDelay ==
    /\ adc.pc = "meas_delay"
    /\ adc' = [adc EXCEPT !.pc = "meas_sample",
                          !.ops = Append(@, <<"delay_ms", MUX_SETTLE_MS>>)]
    /\ AdcRest

\* let meas = self.read_inner(ch)
ReadMeasSample ==
    /\ adc.pc = "meas_sample"
    /\ \E v \in AvgSamples :
          adc' = [adc EXCEPT !.pc = "return", !.meas = v,
                             !.ops = Append(@, <<"read_inner", adc.ch>>)]
    /\ AdcRest

\* mutant: the multiplexer is left on the measured pin
ReadReturn_mux_left ==
    /\ adc.pc = "return"
    /\ adc' = [adc EXCEPT !.pc = "done",
                          !.ret = read(adc.channel, adc.cal, adc.meas)]
    /\ AdcRest

\* self.dut.wo(utra::dut::DUT, 0) and the guarded subtraction
ReadReturn ==
    /\ adc.pc = "return"
    /\ adc' = [adc EXCEPT !.pc = "done", !.mux = None,
                          !.ops = Append(@, <<"mux", None>>),
                          !.ret = read(adc.channel, adc.cal, adc.meas)]
    /\ AdcRest

AdcNext ==
    \/ AdcNew \/ ReadCall \/ ReadLookup
    \/ ReadCalMux \/ ReadCalDelay \/ ReadCalSample
    \/ ReadMeasMux \/ ReadMeasDelay \/ ReadMeasSample
    \/ ReadReturn

SpecAdc == Init /\ [][AdcNext]_vars

(***************************************************************************)
(* The bank scanner's three functions, each called once on a bank and on   *)
(* the samples the converter delivers during the call's scan               *)
(***************************************************************************)
\* sample pairs <<cal, meas>> of one pin: Readings 999, 1000, 1001 around the
\* threshold, 0 (measurement at or above the calibration), 1 and 65535
PinSamples == AdcSamples \cup { <<2000, 2000>>, <<1000, 2000>>, <<2000, 1999>>,
                                <<65535, 0>> }

\* the scans of a bank: the pins of B deliver x, the other pins y
ScanCases(b) ==
    LET n == Len(BankPins(b))
    IN { [i \in 1..n |-> IF i \in B THEN x ELSE y] :
            B \in PinSets(n), x \in PinSamples, y \in {ConnectedSample, <<65535, 0>>} }

ScanInit ==
    /\ SeqInit
    /\ tm = TmIdle
    /\ adc = AdcIdle
    /\ dl = DlIdle
    /\ pins = NoPins
    /\ \E b \in PinBank : \E s \in ScanCases(b) :
          sc = [ScIdle EXCEPT !.bank = b, !.samples = s]

ScRest == UNCHANGED <<seqvars, tm, adc, dl, pins>>

CallCheckPins ==
    /\ sc.op = "none"
    /\ sc' = [sc EXCEPT !.op = "check_pins", !.res = check_pins(sc.bank, sc.samples)]
    /\ ScRest

CallCheckInsert ==
    /\ sc.op = "none"
    /\ sc' = [sc EXCEPT !.op = "check_insert", !.res = check_insert(sc.bank, sc.samples)]
    /\ ScRest

CallSettlingCheck ==
    /\ sc.op = "none"
    /\ sc' = [sc EXCEPT !.op = "settling_check",
                        !.res = settling_check(sc.bank, sc.samples)]
    /\ ScRest

ScanNext == CallCheckPins \/ CallCheckInsert \/ CallSettlingCheck

SpecScan == ScanInit /\ [][ScanNext]_vars

(***************************************************************************)
(* delay_ms step by step.  The hardware counter dl.hw advances by itself,  *)
(* one millisecond per tick; TimeMs::now() reads its low word (TIME0) and  *)
(* then its high word (TIME1) in two separate register reads, and a tick   *)
(* can fall between them.                                                  *)
(***************************************************************************)
\* ticks of the hardware counter during one call
MaxTicks == 4

\* the 40-bit counter one millisecond later
tick(t) ==
    LET low == overflowing_add(t.time0, Bytes(1, 4))
    IN [time0 |-> low[1],
        time1 |-> IF low[2] THEN AndBytes(Bytes(255, 4), wrapping_add(t.time1, Bytes(1, 4)))
                  ELSE t.time1]

\* the counter at the call: the low word at 0 or up to MaxTicks below its
\* rollover, the high word at either end of its 8 bits
CounterSamples ==
    {[time0 |-> lo, time1 |-> hi] :
        lo \in {Bytes(0, 4)} \cup {wrapping_sub(U32_MAX, Bytes(k, 4)) : k \in 0..MaxTicks},
        hi \in {Bytes(0, 4), Bytes(255, 4)}}

DelayInit ==
    /\ SeqInit
    /\ pins = NoPins
    /\ tm = TmIdle
    /\ adc = AdcIdle
    /\ sc = ScIdle
    /\ \E ms \in 1..(MaxTicks - 1) : \E c \in CounterSamples :
          dl = [pc |-> "call", ms |-> ms, hw |-> c, ticks |-> 0, start |-> c,
                t0 |-> Bytes(0, 4), stop_time |-> c, called |-> c, ret |-> None,
                prev |-> None]

DlRest == UNCHANGED <<seqvars, tm, adc, sc, pins>>

\* the hardware counter ticks
DelayTick ==
    /\ dl.pc \in {"call", "call_time1", "poll", "poll_time1"}
    /\ dl.ticks < MaxTicks
    /\ dl' = [dl EXCEPT !.hw = tick(dl.hw), !.ticks = dl.ticks + 1]
    /\ DlRest

\* time0: ticktimer_csr.r(utra::ticktimer::TIME0)
NowTime0 ==
    /\ dl.pc \in {"call", "poll"}
    /\ dl' = [dl EXCEPT !.t0 = dl.hw.time0, !.called = dl.hw,
                        !.pc = IF dl.pc = "call" THEN "call_time1" ELSE "poll_time1"]
    /\ DlRest

\* time1: ticktimer_csr.r(utra::ticktimer::TIME1), and the TimeMs it completes
now == [time0 |-> dl.t0, time1 |-> dl.hw.time1]

\* history of the now() that returns: its value, and the counter when its
\* first read was made and at its return
returned == Some([value |-> now, start |-> dl.called, end |-> dl.hw])

\* let stop_time = TimeMs::now().add_ms(ms)
DelayStopTime ==
    /\ dl.pc = "call_time1"
    /\ dl' = [dl EXCEPT !.stop_time = add_ms(now, Bytes(dl.ms, 4)), !.pc = "poll",
                        !.ret = returned, !.prev = dl.ret]
    /\ DlRest

\* if TimeMs::now() >= stop_time { break; }
DelayPoll ==
    /\ dl.pc = "poll_time1"
    /\ dl' = [dl EXCEPT !.pc = IF partial_cmp(now, dl.stop_time)
                                     \in {Some("Greater"), Some("Equal")}
                                  THEN "returned" ELSE "poll",
                        !.ret = returned, !.prev = dl.ret]
    /\ DlRest

DelayNext == DelayTick \/ NowTime0 \/ DelayStopTime \/ DelayPoll

SpecDelay == DelayInit /\ [][DelayNext]_vars

(***************************************************************************)
(* The run loop with the cable followed from scan to scan.  pins.samples   *)
(* holds what the converter delivers for the pins of each bank at the      *)
(* moment; the cable moves (PinsChange) until a bank has come to rest      *)
(* (PinsRest), and every scan of an iteration reads the samples of that    *)
(* moment.  The main loop runs without pause, every conversion signals     *)
(* done and every delay_ms elapses, so an iteration that can be taken is   *)
(* taken: weak fairness of each iteration of the loop.                     *)
(***************************************************************************)
\* the progress glyphs: the code reads the progress counter only modulo 4,
\* and this specification keeps it modulo 4
GLYPHS == 4

OpenSample == <<2000, 999>>

\* a bank with every pin connected, or with every pin open
LiveSamples(b) ==
    {[i \in 1..Len(BankPins(b)) |-> x] : x \in {ConnectedSample, OpenSample}}

LiveInit ==
    /\ SeqInit
    /\ tm = TmIdle
    /\ adc = AdcIdle
    /\ sc = ScIdle
    /\ dl = DlIdle
    /\ \E l \in LiveSamples("Lower"), u \in LiveSamples("Upper") :
          pins = [samples |-> [Lower |-> l, Upper |-> u],
                  steady |-> [b \in PinBank |-> FALSE]]

\* a bank that has not come to rest is plugged or unplugged
PinsChange ==
    /\ \E b \in PinBank : \E s \in LiveSamples(b) :
          /\ ~pins.steady[b]
          /\ s # pins.samples[b]
          /\ pins' = [pins EXCEPT !.samples[b] = s]
    /\ UNCHANGED <<seqvars, tm, adc, sc, dl>>

\* a bank comes to rest: its samples no longer change
PinsRest ==
    /\ \E b \in PinBank :
          /\ ~pins.steady[b]
          /\ pins' = [pins EXCEPT !.steady[b] = TRUE]
    /\ UNCHANGED <<seqvars, tm, adc, sc, dl>>

\* RUN_RUN reads 1 and test_state is WaitInsert; check_insert reads the cable
LiveWaitInsert ==
    /\ pc = "run"
    /\ run_run = 1
    /\ test_state = "WaitInsert"
    /\ counter' = 0
    /\ stabilize' = 0
    /\ IF upper_finished /\ lower_finished
       THEN /\ test_state' = "ReportResult"
            /\ shown' = None
            /\ UNCHANGED <<bank, screen>>
       ELSE /\ screen' = [kind |-> "insert", upper |-> upper_finished,
                          lower |-> lower_finished]
            /\ LET lower_ins == check_insert("Lower", pins.samples["Lower"])
                   upper_ins == check_insert("Upper", pins.samples["Upper"])
                   pick == select_bank(lower_finished, upper_finished,
                                       lower_ins, upper_ins)
               IN /\ shown' = Some([Lower |-> lower_ins, Upper |-> upper_ins,
                                    checked |-> insert_checks(lower_finished,
                                                   upper_finished, lower_ins)])
                  /\ IF pick # None
                     THEN test_state' = "Measure" /\ bank' = pick[1]
                     ELSE UNCHANGED <<test_state, bank>>
    /\ UNCHANGED <<pc, led, last_result, lower_result, lower_finished,
                   upper_result, upper_finished, scan_samples, run_run, debounce,
                   tm, adc, sc, dl, pins>>

\* RUN_RUN reads 1 and test_state is Measure; settling_check(PinBank::Lower)
\* and check_pins read the cable
LiveMeasure ==
    /\ pc = "run"
    /\ run_run = 1
    /\ shown' = None
    /\ test_state = "Measure"
    /\ screen' = [kind |-> "measuring", bank |-> bank, glyph |-> counter % GLYPHS]
    /\ counter' = (counter + 1) % GLYPHS
    /\ LET new_result == settling_check("Lower", pins.samples["Lower"])
           stab == IF results_equal(new_result, last_result)
                   THEN stabilize + 1 ELSE 0
       IN /\ stabilize' = stab
          /\ last_result' = new_result
          /\ IF stab = STABLE_COUNT
             THEN IF bank = "Lower"
                  THEN /\ lower_result' = check_pins("Lower", pins.samples["Lower"])
                       /\ scan_samples' =
                              [scan_samples EXCEPT !["Lower"] = pins.samples["Lower"]]
                       /\ lower_finished' = TRUE
                       /\ test_state' = "WaitInsert"
                       /\ UNCHANGED <<upper_result, upper_finished>>
                  ELSE /\ upper_result' = check_pins("Upper", pins.samples["Upper"])
                       /\ scan_samples' =
                              [scan_samples EXCEPT !["Upper"] = pins.samples["Upper"]]
                       /\ upper_finished' = TRUE
                       /\ test_state' = "WaitInsert"
                       /\ UNCHANGED <<lower_result, lower_finished>>
             ELSE UNCHANGED <<lower_result, lower_finished, upper_result,
                              upper_finished, test_state, scan_samples>>
    /\ UNCHANGED <<pc, led, bank, run_run, debounce, tm, adc, sc, dl, pins>>

LiveNext ==
    \/ Press
    \/ StartRun
    \/ Abort
    \/ LiveWaitInsert
    \/ LiveMeasure
    \/ ReportResult
    \/ PinsChange
    \/ PinsRest

\* every iteration of the main loop that can be taken is taken
LoopRuns ==
    /\ WF_vars(StartRun)
    /\ WF_vars(Abort)
    /\ WF_vars(LiveWaitInsert)
    /\ WF_vars(LiveMeasure)
    /\ WF_vars(ReportResult)

SpecLive == LiveInit /\ [][LiveNext]_vars /\ LoopRuns

(***************************************************************************)
(* Properties of the report                                                *)
(***************************************************************************)
\* ReportResult has run in the current run: the LED shows its verdict
Reported == pc = "run" /\ test_state = "ReportResult" /\ led \in {"pass", "fail"}

StoredResult(b) == IF b = "Lower" THEN lower_result ELSE upper_result
\* the stored Reading of pin i of bank b
PinReading(b, i) == StoredResult(b)[i][2]
PinsOf(b) == 1..Len(BankPins(b))
\* pins at or above the threshold among pins 1..i of bank b
OpenUpTo(b, i) == Cardinality({j \in 1..i : PinReading(b, j) >= MIN_NC_THRESH})
\* the place of pin i of bank b among the pins at or above the threshold, in
\* report order: the Lower bank's pins, then the Upper bank's
ReportRank(b, i) ==
    IF b = "Lower" THEN OpenUpTo("Lower", i)
    ELSE OpenUpTo("Lower", Len(LOWER_PINS)) + OpenUpTo("Upper", i)
InSeq(x, q) == \E k \in 1..Len(q) : q[k] = x

\* the calibrated Reading max(0, cal - meas) of a sample pair
Calibrated(sample) == IF sample[2] >= sample[1] THEN 0 ELSE sample[1] - sample[2]

\* C1: when, in the scans stored at settlement, every pin of the Lower bank
\* and every pin of the Upper bank yields a calibrated Reading below 1000,
\* the verdict reported in ReportResult is PASS.
C1_AllConnectedPass ==
    (/\ Reported
     /\ \A b \in PinBank : \A i \in PinsOf(b) :
            Calibrated(scan_samples[b][i]) < MIN_NC_THRESH)
    => led = "pass"

C3_OpenPinFailsAndIsListed ==
    Reported =>
        \A b \in PinBank : \A i \in PinsOf(b) :
            PinReading(b, i) > MIN_NC_THRESH =>
                /\ led = "fail"
                /\ screen.kind = "fail"
                /\ ReportRank(b, i) <= MAX_LINES => InSeq(BankPins(b)[i][2], screen.names)

\* the last Lower pin alone reads above 1000, every other Lower pin below,
\* and its label is listed
C3_Witness ==
    /\ Reported
    /\ \A i \in PinsOf("Lower") :
          IF i = Len(LOWER_PINS) THEN PinReading("Lower", i) > MIN_NC_THRESH
          ELSE PinReading("Lower", i) < MIN_NC_THRESH
    /\ led = "fail"
    /\ InSeq("VBUS: Pin B4", screen.names)

\* C4: the failing-pin list of a report holds at most 5 labels, counted over
\* both banks together.
C4_ListCapped == screen.kind = "fail" => Len(screen.names) <= MAX_LINES

\* fewer than 5 Lower pins and more than 5 pins in all are at or above the
\* threshold, and the list holds exactly 5 labels
C4_Witness ==
    /\ Reported
    /\ screen.kind = "fail"
    /\ OpenUpTo("Lower", Len(LOWER_PINS)) \in 1..(MAX_LINES - 1)
    /\ OpenUpTo("Lower", Len(LOWER_PINS)) + OpenUpTo("Upper", Len(UPPER_PINS)) > MAX_LINES
    /\ Len(screen.names) = MAX_LINES

(***************************************************************************)
(* Properties of the timestamp arithmetic                                  *)
(***************************************************************************)
\* the 40-bit value high * 2^32 + low of a timestamp whose high word is in 0..255
V40(t) == t.time0 \o <<t.time1[1]>>
HighIsByte(t) == SubSeq(t.time1, 2, 4) = <<0, 0, 0>>
\* tm.b - tm.a as 40-bit numbers: 5 bytes of difference, then the borrow
TrueDiff == SubBytes(V40(tm.b), V40(tm.a), 0)
\* x is earlier than y: high word first, low word as tie-break
Earlier(x, y) ==
    \/ LtBytes(x.time1, y.time1)
    \/ x.time1 = y.time1 /\ LtBytes(x.time0, y.time0)

\* C5: for b >= a with b - a < 2^32, sub_u32 returns Ok with exactly b - a.
C5_ElapsedExact ==
    (tm.op = "sub_u32" /\ TrueDiff[6] = 0 /\ TrueDiff[5] = 0)
    => tm.res = Ok(SubSeq(TrueDiff, 1, 4))

\* the high words differ by one and the low word wrapped in the interval
C5_Witness ==
    /\ tm.op = "sub_u32"
    /\ tm.b.time1 = wrapping_add(tm.a.time1, Bytes(1, 4))
    /\ LtBytes(tm.b.time0, tm.a.time0)
    /\ TrueDiff[6] = 0 /\ TrueDiff[5] = 0
    /\ tm.res.ok

\* C6: for b >= a with b - a >= 2^32, sub_u32 returns the Overflow error.
C6_OverflowReported ==
    (tm.op = "sub_u32" /\ TrueDiff[6] = 0 /\ TrueDiff[5] # 0)
    => tm.res = Err("Overflow")

\* C7: for b strictly earlier than a, sub_u32 returns the Underflow error.
C7_UnderflowReported ==
    (tm.op = "sub_u32" /\ Earlier(tm.b, tm.a)) => tm.res = Err("Underflow")

\* the high words are equal and the low word decides
C7_Witness ==
    /\ tm.op = "sub_u32"
    /\ tm.b.time1 = tm.a.time1
    /\ LtBytes(tm.b.time0, tm.a.time0)
    /\ tm.res = Err("Underflow")

\* C8: add_ms(t, x + y) = add_ms(add_ms(t, x), y) whenever x + y fits a u32,
\* and add_ms(t, x) is t + x modulo 2^40.
C8_AddMsModular ==
    tm.op = "add_ms" =>
        /\ HighIsByte(tm.res)
        /\ V40(tm.res) = SubSeq(AddBytes(V40(tm.a), tm.x \o <<0>>, 0), 1, 5)
        /\ \A y \in U32Samples :
              ~overflowing_add(tm.x, y)[2] =>
                  add_ms(tm.res, y) = add_ms(tm.a, wrapping_add(tm.x, y))

\* the low word overflows with the high word at 255: the 40-bit rollover
C8_Witness ==
    /\ tm.op = "add_ms"
    /\ tm.a.time1 = Bytes(255, 4)
    /\ overflowing_add(tm.a.time0, tm.x)[2]
    /\ tm.res.time1 = Bytes(0, 4)

\* t + 1000 * s without any width limit (11 bytes)
WideSum(t, s) ==
    AddBytes(V40(t) \o <<0, 0, 0, 0, 0>>, MulBytes(as_u64(s), MS_PER_SECOND, 0), 0)
WideEnd == END_OF_TIME_MS \o <<0, 0, 0>>

\* C9: add_s(t, s) = min(t + 1000 * s, 2^40 - 1); the result never exceeds
\* 2^40 - 1 and is never smaller than t.
C9_AddSecondsSaturates ==
    tm.op = "add_s" =>
        /\ HighIsByte(tm.res)
        /\ V40(tm.res) = SubSeq(IF LtBytes(WideSum(tm.a, tm.x), WideEnd)
                                THEN WideSum(tm.a, tm.x) ELSE WideEnd, 1, 5)
        /\ ~LtBytes(V40(tm.res), V40(tm.a))

\* add_s(0, 4294967295) is 2^40 - 1
C9_Witness ==
    /\ tm.op = "add_s"
    /\ tm.a = [time0 |-> Bytes(0, 4), time1 |-> Bytes(0, 4)]
    /\ tm.x = U32_MAX
    /\ tm.res = [time0 |-> U32_MAX, time1 |-> Bytes(255, 4)]

\* numeric comparison of the 40-bit values
NumericCmp(x, y) ==
    IF LtBytes(V40(x), V40(y)) THEN Some("Less")
    ELSE IF LtBytes(V40(y), V40(x)) THEN Some("Greater")
    ELSE Some("Equal")
Flip(o) ==
    IF o = Some("Less") THEN Some("Greater")
    ELSE IF o = Some("Greater") THEN Some("Less") ELSE o
Le(x, y) == partial_cmp(x, y) \in {Some("Less"), Some("Equal")}

\* C10: the comparison is the numeric order of high * 2^32 + low: total,
\* antisymmetric, transitive, and Equal exactly for field-wise equal values.
C10_TotalOrder ==
    tm.op = "partial_cmp" =>
        /\ tm.res = NumericCmp(tm.a, tm.b)
        /\ tm.res # None
        /\ (tm.res = Some("Equal")) <=> (tm.a = tm.b)
        /\ partial_cmp(tm.b, tm.a) = Flip(tm.res)
        /\ \A c \in TimeSamples : (Le(tm.a, tm.b) /\ Le(tm.b, c)) => Le(tm.a, c)

\* the high word decides against the low word
C10_Witness ==
    /\ tm.op = "partial_cmp"
    /\ LtBytes(tm.a.time1, tm.b.time1)
    /\ LtBytes(tm.b.time0, tm.a.time0)
    /\ tm.res = Some("Less")

(***************************************************************************)
(* Claims about the calibrated reader (SpecAdc)                            *)
(***************************************************************************)
\* the pins that have an entry in the channel map
Mapped == {CHANNEL_MAP[i] : i \in 1..Len(CHANNEL_MAP)}

\* C11: for a pin of the channel map a finished read returns
\* max(0, calibration - measurement): 0 when the two samples are equal, the
\* difference when the measurement is below the calibration, and 0 (never an
\* underflowed value) when the measurement is above the calibration.
C11_ReadClampsAtZero ==
    (adc.pc = "done" /\ adc.channel \in Mapped) =>
        /\ (adc.meas = adc.cal) => (adc.ret = Some(0))
        /\ (adc.meas < adc.cal) => (adc.ret = Some(adc.cal - adc.meas))
        /\ (adc.meas > adc.cal) => (adc.ret = Some(0))

\* a read of a mapped pin has returned with the measurement above the calibration
C11_Witness ==
    /\ adc.pc = "done"
    /\ adc.channel \in Mapped
    /\ adc.meas > adc.cal
    /\ adc.ret = Some(0)

\* C18: read returns None if and only if the pin is not one of the 16
\* channel-map entries, and such a call performs no multiplexer write, no
\* delay and no conversion: the multiplexer is as the call found it.
C18_UnmappedReadTouchesNothing ==
    (adc.pc = "done") =>
        /\ (adc.ret = None) <=> (adc.channel \notin Mapped)
        /\ (adc.channel \notin Mapped) => (adc.ops = <<>> /\ adc.mux = None)

\* a read of the pin that has no channel-map entry has returned
C18_Witness ==
    /\ adc.pc = "done"
    /\ adc.channel = "DUT_GND_EX"
    /\ adc.ret = None
    /\ adc.ops = <<>>

(***************************************************************************)
(* Claims about the bank scanner (SpecScan)                                *)
(***************************************************************************)
\* the Reading the scanner owes pin i of bank b when the converter delivers
\* samples: the calibrated difference for a pin of the channel map, 65535
\* for a pin the reader rejects
OwedReading(b, i, samples) ==
    IF BankPins(b)[i][1] \in Mapped THEN Calibrated(samples[i]) ELSE U16_MAX

C17_InsertIffSomePinBelow ==
    (sc.op = "check_insert") =>
        (sc.res <=> \E i \in PinsOf(sc.bank) :
                        OwedReading(sc.bank, i, sc.samples) < MIN_NC_THRESH)

\* check_insert was false on a bank whose pins all read at or above the
\* threshold, one of them exactly at it
C17_Witness ==
    /\ sc.op = "check_insert"
    /\ sc.res = FALSE
    /\ \E i \in PinsOf(sc.bank) :
          OwedReading(sc.bank, i, sc.samples) = MIN_NC_THRESH

(***************************************************************************)
(* Claims about the run loop (Spec)                                        *)
(***************************************************************************)
InRun == pc = "run"
Finished(b) == IF b = "Lower" THEN lower_finished ELSE upper_finished
\* a step of the run loop that scans in Measure: the only step that advances
\* the progress counter
MeasureStep == InRun /\ test_state = "Measure" /\ counter' = counter + 1
\* a step that declares the bank under test settled
SettleStep == /\ MeasureStep
              /\ test_state' = "WaitInsert"
              /\ ~Finished(bank) /\ Finished(bank)'

\* C12: on each scan of a Measure phase the stabilization counter becomes one
\* more when the new Settlement Snapshot equals the previous snapshot and zero
\* when it differs; the bank is declared settled at exactly the scan that
\* brings the counter to 4 consecutive matches, never at an earlier scan.
C12_SettledAtFourthMatch ==
    [][MeasureStep =>
          /\ stabilize' = IF last_result' = last_result THEN stabilize + 1 ELSE 0
          /\ stabilize < STABLE_COUNT
          /\ SettleStep <=> (stabilize' = STABLE_COUNT)
          /\ (stabilize' # STABLE_COUNT) =>
                (test_state' = "Measure" /\ Finished(bank)' = Finished(bank))]_vars

\* a bank has just been declared settled on the 4th match in a row, after an
\* earlier scan of the phase had reset the counter
C12_Witness ==
    /\ InRun
    /\ test_state = "WaitInsert"
    /\ stabilize = STABLE_COUNT
    /\ counter > STABLE_COUNT
    /\ Finished(bank)

\* the Test Session State a run is created with
FreshRun ==
    /\ test_state = "WaitInsert"
    /\ stabilize = 0
    /\ counter = 0
    /\ last_result = AllFalse
    /\ bank = "Lower"
    /\ ~lower_finished /\ ~upper_finished
    /\ lower_result = EmptyResult /\ upper_result = EmptyResult
    /\ scan_samples = NoScans

C14_LowerBeforeUpper ==
    (InRun /\ shown # None) =>
        /\ (/\ ~lower_finished /\ ~upper_finished
            /\ shown[1].Lower /\ shown[1].Upper)
               => (test_state = "Measure" /\ bank = "Lower")
        /\ (test_state = "Measure" /\ bank = "Upper")
               => (lower_finished \/ ~shown[1].Lower)

\* both banks showed a connection with neither finished, and Lower was picked
C14_Witness ==
    /\ InRun
    /\ shown # None
    /\ shown[1].Lower /\ shown[1].Upper
    /\ ~lower_finished /\ ~upper_finished
    /\ test_state = "Measure"
    /\ bank = "Lower"

\* a snapshot a scan of bank b can give: the slots beyond the pins of b are
\* unused and read as open
SnapshotOf(b, snapshot) ==
    \A i \in (Len(BankPins(b)) + 1)..RESULT_SLOTS : ~snapshot[i]

\* C15: the Settlement Snapshot a Measure iteration samples and compares is a
\* scan of current_bank: with current_bank Upper it is a snapshot of the Upper
\* bank's pins, with current_bank Lower of the Lower bank's pins.
C15_SnapshotOfCurrentBank ==
    (InRun /\ test_state = "Measure" /\ counter > 0) => SnapshotOf(bank, last_result)

\* the Test Session State that ReportResult must leave alone
reported_state == <<test_state, lower_result, lower_finished, upper_result,
                    upper_finished>>

\* C19: ReportResult is terminal for the run: from it every loop iteration
\* either leaves the run by the start/stop control or stays in ReportResult
\* with the stored Bank Scan Results and the finished flags unchanged, and a
\* verdict once shown is never changed.
C19_ReportResultTerminal ==
    [][(InRun /\ test_state = "ReportResult") =>
          \/ pc' = "idle" /\ run_run = 0
          \/ /\ pc' = "run"
             /\ UNCHANGED reported_state
             /\ (led \in {"pass", "fail"}) => UNCHANGED <<led, screen>>]_vars

\* the verdict FAIL is shown and the start/stop control is pressed
C19_Witness ==
    /\ InRun
    /\ test_state = "ReportResult"
    /\ led = "fail"
    /\ screen.kind = "fail"
    /\ run_run = 0

\* the Test Session State, which only a state action writes
run_state == <<test_state, stabilize, last_result, lower_result, lower_finished,
               upper_result, upper_finished, bank, counter, screen, scan_samples>>

\* C20: in each of the three states an iteration of the run loop whose
\* top-of-loop sample of the start/stop control reads pressed executes no
\* state action and ends the run, after a 10 ms delay, the wait for the
\* control to read released, and another 10 ms delay; a state action is
\* executed only in an iteration whose sample reads released.
C20_AbortPolledEveryIteration ==
    [][/\ (InRun /\ run_run = 0) =>
             /\ pc' = "idle"
             /\ led' = "idle"
             /\ run_run' = 1
             /\ debounce' = << <<"delay_ms", 10>>, <<"wait_for", "RUN_RUN", 1>>,
                               <<"delay_ms", 10>> >>
             /\ UNCHANGED run_state
       /\ (InRun /\ run_state' # run_state) => (run_run = 1 /\ pc' = "run")
      ]_vars

\* a run was ended by the control in WaitInsert, after its first bank
C20_Witness ==
    /\ pc = "idle"
    /\ led = "idle"
    /\ run_run = 1
    /\ test_state = "WaitInsert"
    /\ lower_finished
    /\ ~upper_finished

(***************************************************************************)
(* Claims about the read protocol (SpecAdc)                                *)
(***************************************************************************)
\* the hardware operations of a successful read of pin f on converter
\* channel ch, in order
ReadProtocol(f, ch) ==
    << <<"mux", None>>, <<"delay_ms", 2>>, <<"read_inner", 11>>,
       <<"mux", Some(f)>>, <<"delay_ms", 2>>, <<"read_inner", ch>>,
       <<"mux", None>> >>

\* position i of CHANNEL_MAP holds converter channel i - 1
MapsTo(f, ch) == ch \in 0..15 /\ CHANNEL_MAP[ch + 1] = f

\* C21: a successful read performs, in this order: multiplexer to neutral,
\* 2 ms delay, calibration sample, multiplexer to the requested pin only,
\* 2 ms delay, measurement sample, multiplexer back to neutral.  So the
\* calibration sample is taken only with the multiplexer neutral, the
\* measurement sample only with exactly the requested pin selected, and the
\* multiplexer is neutral whenever no read is in progress.
C21_ReadProtocolOrder ==
    /\ (adc.pc = "done" /\ adc.ret # None) =>
          /\ MapsTo(adc.channel, adc.ch)
          /\ adc.ops = ReadProtocol(adc.channel, adc.ch)
    /\ (adc.pc = "cal_sample") => (adc.mux = None)
    /\ (adc.pc = "meas_sample") => (adc.mux = Some(adc.channel))
    /\ (adc.pc \in {"idle", "ready", "lookup", "done"}) => (adc.mux = None)

\* a read of the last pin of the channel map has returned a Reading
C21_Witness ==
    /\ adc.pc = "done"
    /\ adc.channel = "DUT_CC1_A5"
    /\ adc.ret # None
    /\ Len(adc.ops) = 7

(***************************************************************************)
(* Claims about the busy-polling sleep (SpecDelay)                         *)
(***************************************************************************)
\* the call started more than dl.ms before the 40-bit rollover: far enough
\* for the counter not to reach the rollover within the ticks of the call
BeforeRollover == AddBytes(V40(dl.start), Bytes(MaxTicks, 5), 0)[6] = 0

\* C22: delay_ms(ms) returns only when the hardware counter has reached at
\* least its value at the call plus ms, for every start at least ms before
\* the 40-bit rollover and however the counter's ticks fall between the two
\* register reads of now(): at the return at least ms ticks have passed.
C22_DelayNeverEarly ==
    (dl.pc = "returned" /\ BeforeRollover) => (dl.ticks >= dl.ms)

(***************************************************************************)
(* Further claims about the run loop (Spec)                                *)
(***************************************************************************)
\* C23: every run starts from the same fresh Test Session State however the
\* previous run ended: state WaitInsert, both finished flags false,
\* stabilization counter and progress counter 0, previous snapshot all-open,
\* current_bank Lower and both stored Bank Scan Results reset, so that nothing
\* an earlier run recorded can reach a later run's verdict.
C23_EveryRunStartsFresh ==
    [][(pc = "idle" /\ pc' = "run") =>
          /\ test_state' = "WaitInsert"
          /\ ~lower_finished' /\ ~upper_finished'
          /\ stabilize' = 0 /\ counter' = 0
          /\ last_result' = [i \in 1..RESULT_SLOTS |-> FALSE]
          /\ bank' = "Lower"
          /\ lower_result' = [i \in 1..RESULT_SLOTS |-> <<None, U16_MAX>>]
          /\ upper_result' = [i \in 1..RESULT_SLOTS |-> <<None, U16_MAX>>]]_vars

\* a run has just started after a run that reported FAIL: the screen still
\* shows that report, the Test Session State is fresh
C23_Witness ==
    /\ InRun
    /\ led = "run"
    /\ screen.kind = "fail"
    /\ test_state = "WaitInsert"
    /\ ~lower_finished /\ ~upper_finished
    /\ lower_result = EmptyResult /\ upper_result = EmptyResult

BothFinished == lower_finished /\ upper_finished

\* C24: in a run the sequencer is in ReportResult only if both finished flags
\* are true, and an iteration that executes WaitInsert with both flags true
\* goes to ReportResult without scanning any bank.
C24_ReportOnlyWhenBothFinished ==
    [][/\ (InRun /\ test_state = "ReportResult") => BothFinished
       /\ (/\ InRun /\ test_state = "WaitInsert" /\ BothFinished
           /\ run_run = 1 /\ run_run' = 1)
             => /\ test_state' = "ReportResult"
                /\ shown' = None
                /\ UNCHANGED <<lower_result, lower_finished, upper_result,
                               upper_finished, scan_samples, last_result>>
      ]_vars

\* WaitInsert has just found both banks finished: ReportResult is entered and
\* no verdict is shown yet
C24_Witness ==
    /\ InRun
    /\ test_state = "ReportResult"
    /\ BothFinished
    /\ led = "run"
    /\ shown = None

\* C25: within one run each bank is measured at most once: a finished flag
\* that is true stays true while the run lasts, WaitInsert calls check_insert
\* on no bank whose finished flag is true, and the sequencer is never in
\* Measure with current_bank equal to a finished bank.
C25_BankMeasuredOnce ==
    [][/\ (InRun /\ pc' = "run") =>
             /\ lower_finished => lower_finished'
             /\ upper_finished => upper_finished'
       /\ (InRun /\ shown # None) =>
             \A k \in 1..Len(shown[1].checked) : ~Finished(shown[1].checked[k])
       /\ (InRun /\ test_state = "Measure") => ~Finished(bank)
      ]_vars

\* with the Lower bank finished and still showing a connection, WaitInsert
\* checked the Upper bank only and picked it
C25_Witness ==
    /\ InRun
    /\ lower_finished
    /\ shown # None
    /\ shown[1].Lower
    /\ shown[1].checked = <<"Upper">>
    /\ test_state = "Measure"
    /\ bank = "Upper"

OtherBank(b) == IF b = "Lower" THEN "Upper" ELSE "Lower"
stored_state == <<lower_result, lower_finished, upper_result, upper_finished>>

\* C26: a Measure iteration that settles writes exactly the stored Bank Scan
\* Result and the finished flag of current_bank and returns to WaitInsert,
\* leaving the other bank's stored result and finished flag unchanged; a
\* Measure iteration that does not settle changes no stored result and no
\* finished flag and stays in Measure.
C26_SettlementFrame ==
    [][MeasureStep =>
          \/ /\ test_state' = "Measure"
             /\ UNCHANGED stored_state
          \/ /\ test_state' = "WaitInsert"
             /\ bank' = bank
             /\ Finished(bank)'
             /\ \A i \in PinsOf(bank) :
                   StoredResult(bank)'[i][1] = Some(BankPins(bank)[i][2])
             /\ StoredResult(OtherBank(bank))' = StoredResult(OtherBank(bank))
             /\ Finished(OtherBank(bank))' = Finished(OtherBank(bank))]_vars

\* the Lower bank has just settled and the Upper bank has not been measured
C26_Witness ==
    /\ InRun
    /\ test_state = "WaitInsert"
    /\ stabilize = STABLE_COUNT
    /\ bank = "Lower"
    /\ lower_finished
    /\ lower_result[1][1] = Some("GND: Pin B12")
    /\ ~upper_finished
    /\ upper_result = EmptyResult

(***************************************************************************)
(* Claims about the pins' channels (SpecScan)                              *)
(***************************************************************************)
\* C27: every Pin Descriptor of the Upper and of the Lower bank is in the
\* channel map, so a scan never takes the reader's None path: the Reading it
\* stores for each pin of the bank is the calibrated difference of that pin's
\* samples, never a maximum forced independently of them.
C27_EveryBankPinIsRead ==
    (sc.op = "check_pins") =>
        \A i \in PinsOf(sc.bank) : sc.res[i][2] = Calibrated(sc.samples[i])

(***************************************************************************)
(* Claims about the stored results and the report (Spec)                   *)
(***************************************************************************)
\* a bank has just been declared settled: last_result is the snapshot that
\* completed the 4 consecutive matches
JustSettled ==
    /\ InRun
    /\ test_state = "WaitInsert"
    /\ stabilize = STABLE_COUNT
    /\ Finished(bank)

\* C28: the Bank Scan Result stored at settlement agrees with the settled
\* Settlement Snapshot: for each pin of the bank the stored Reading is below
\* 1000 exactly when the snapshot that completed the 4 consecutive matches
\* has the pin connected.
C28_StoredAgreesWithSnapshot ==
    JustSettled =>
        \A i \in PinsOf(bank) : (PinReading(bank, i) < MIN_NC_THRESH) <=> last_result[i]

\* the pins of both banks
AllPins == {p \in PinBank \X (1..RESULT_SLOTS) : p[2] \in PinsOf(p[1])}
\* the slots of both stored results, used or not
AllSlots == PinBank \X (1..RESULT_SLOTS)

\* C29: in a FAIL report the headline number of failing pins is the number
\* of Pin Descriptors, over the 12 Lower and the 4 Upper pins, whose stored
\* Reading the verdict counts as failing.
C29_HeadlineCountsPins ==
    (Reported /\ led = "fail") =>
        screen.total_fail =
            Cardinality({p \in AllPins : PinReading(p[1], p[2]) > MIN_NC_THRESH})

\* C30: one classification of a Reading is used everywhere: the Readings the
\* verdict counts as failing are exactly the Readings that insertion
\* detection and the Settlement Snapshot treat as open, those at or above
\* 1000, so a Reading of exactly 1000 counts in the verdict as it does in the
\* snapshot and the failing-pin list.
C30_OneClassification ==
    (Reported /\ led = "fail") =>
        screen.total_fail =
            Cardinality({p \in AllSlots : PinReading(p[1], p[2]) >= MIN_NC_THRESH})

(***************************************************************************)
(* Claims about now() under a ticking counter (SpecDelay)                  *)
(***************************************************************************)
\* x is not after y, as 40-bit numbers
NotAfter(x, y) == ~LtBytes(V40(y), V40(x))

\* C31: with the hardware counter ticking while now() makes its two register
\* reads, every value now() returns lies between the counter at the start
\* and the counter at the end of the call, and so each call returns no less
\* than the call before it, also when the low word rolls over between the
\* two reads (the 40-bit rollover itself left aside).
C31_NowWithinCall ==
    (dl.ret # None /\ BeforeRollover) =>
        /\ NotAfter(dl.ret[1].start, dl.ret[1].value)
        /\ NotAfter(dl.ret[1].value, dl.ret[1].end)
        /\ dl.prev # None => NotAfter(dl.prev[1].value, dl.ret[1].value)

(***************************************************************************)
(* Liveness of a run (SpecLive)                                            *)
(***************************************************************************)
\* the bank is plugged in and has come to rest
Inserted(b) == pins.steady[b] /\ check_insert(b, pins.samples[b])

\* a Measure phase of bank b, with the start/stop control left alone from
\* now on, and the pins of b coming to rest at some time
MeasureOf(b) ==
    /\ InRun /\ test_state = "Measure" /\ bank = b
    /\ [](run_run = 1)
    /\ <>pins.steady[b]

\* the Measure phase of bank b ends: bank b finished, back in WaitInsert
MeasureSettles(b) == MeasureOf(b) ~> (test_state = "WaitInsert" /\ Finished(b))

\* a run in which both banks are plugged in and at rest shows its report
RunReports ==
    (InRun /\ [](run_run = 1) /\ Inserted("Lower") /\ Inserted("Upper"))
        ~> (test_state = "ReportResult")

\* C32: in a run whose start/stop control is not pressed, with every
\* conversion signalling done and the clock advancing (the fairness of
\* SpecLive), a Measure phase of a bank whose pins eventually stop changing
\* eventually settles and returns to WaitInsert with that bank finished; and
\* when both banks are inserted and at rest the run eventually reaches
\* ReportResult.
C32_RunIsLive ==
    /\ MeasureSettles("Lower")
    /\ MeasureSettles("Upper")
    /\ RunReports

====
